---- MODULE Spec2Model ----
(***************************************************************************)
(* Model of BiblioPixelAnimations/matrix/ImageAnim.py: the ImageAnim       *)
(* constructor (both loading branches), the per-frame compositor           *)
(* _getBufferFromImage, and the playback surface preRun / step.            *)
(*                                                                         *)
(* The interpreter is Python 2 (setup.py: print statement, urllib2), so    *)
(* "/" on two ints is floor division.                                      *)
(***************************************************************************)
EXTENDS Integers, Sequences, FiniteSets

\* pc: "new" before __init__, "ready" once it returned, "failed" once it
\* raised (err names the exception). led .. brightness are the arguments,
\* the underscored names the object's fields, ledBuffer what setBuffer was
\* last given. calls counts the step() calls since the last preRun() (or
\* since construction) and doneAtReset is animComplete as that preRun()
\* found it.
VARIABLES pc, err, led, imagePath, offset, bgcolor, brightness,
          _bright, _bgcolor, _offset, _images, _count, _curImage,
          animComplete, _internalDelay, _step, ledBuffer,
          calls, doneAtReset

vars == <<pc, err, led, imagePath, offset, bgcolor, brightness,
          _bright, _bgcolor, _offset, _images, _count, _curImage,
          animComplete, _internalDelay, _step, ledBuffer,
          calls, doneAtReset>>

\* ------------------------------------------------------------------ bounds

\* Longest source (frames of a GIF, or files of a folder) that is loaded.
MaxFrames == 2

\* step() calls that are counted after a preRun() (or after construction).
MaxCalls == MaxFrames + 1

\* ------------------------------------------------------------------ inputs

Min(a, b) == IF a < b THEN a ELSE b

\* An LEDMatrix: width, height, matrix_map[y][x] (rows, 1-indexed here),
\* numLEDs, the driver's gamma table (by name) and masterBrightness.
\* "dup" maps several coordinates to one physical pixel.
Layouts ==
    { [width |-> 1, height |-> 1, numLEDs |-> 1,
       matrix_map |-> << <<0>> >>],
      [width |-> 2, height |-> 2, numLEDs |-> 4,
       matrix_map |-> << <<0, 1>>, <<3, 2>> >>],
      [width |-> 3, height |-> 2, numLEDs |-> 3,
       matrix_map |-> << <<0, 1, 2>>, <<1, 2, 0>> >>] }

GammaNames == {"linear", "highbit"}

MasterBrightnesses == {255, 64}

Brightnesses == {255, 128}

Leds ==
    { [width |-> l.width, height |-> l.height, numLEDs |-> l.numLEDs,
       matrix_map |-> l.matrix_map, gamma |-> g[1], masterBrightness |-> g[2]]
      : l \in Layouts, g \in GammaNames \X MasterBrightnesses }

\* driver[0].gamma[v]: "linear" is the identity table, "highbit" is a table
\* of the LPD8806 kind, whose every entry has the top bit set (gamma[0] = 128).
GammaAt(name, v) ==
    IF name = "linear" THEN v ELSE 128 + (v \div 2)

\* A decoded source frame: size, a pixel pattern (seed), an alpha pattern
\* and the container's duration.
SourceFrames ==
    { [size |-> <<1, 1>>, seed |-> 255, alpha |-> "opaque", duration |-> 100],
      [size |-> <<2, 2>>, seed |-> 0,   alpha |-> "mixed",  duration |-> 40],
      [size |-> <<3, 2>>, seed |-> 77,  alpha |-> "opaque", duration |-> 40],
      [size |-> <<2, 2>>, seed |-> 255, alpha |-> "opaque", duration |-> 70] }

\* frame.getpixel((i, j)) of the RGBA copy of the source frame.
GetPixel(img, i, j) ==
    LET r == (img.seed + 37 * i + 101 * j) % 256
        a == CASE img.alpha = "opaque" -> 255
               [] img.alpha = "clear"  -> 0
               [] OTHER -> IF (i + j) % 2 = 0 THEN 0 ELSE 128
    IN  <<r, (r + 85) % 256, 255 - r, a>>

RECURSIVE SeqsUpTo(_, _)
SeqsUpTo(S, n) ==
    IF n = 0 THEN { <<>> }
    ELSE LET shorter == SeqsUpTo(S, n - 1)
         IN  shorter \cup { Append(s, e) : s \in shorter, e \in S }

Offsets == { <<0, 0>>, <<1, 1>>, <<-1, -1>>, <<3, 0>>, <<-2, 1>> }

BgColors == { <<0, 0, 0>>, <<10, 20, 255>> }

\* The image paths: a ".gif" container of at least one timed frame, or a
\* folder whose sorted "*.bmp" listing may be empty.
ImagePaths ==
    { [kind |-> k, frames |-> f] :
        k \in {"gif", "folder"}, f \in SeqsUpTo(SourceFrames, MaxFrames) }
    \ { [kind |-> "gif", frames |-> <<>>] }

\* Python's None for a duration is the empty tuple, a value d is <<d>>.
None == <<>>

\* ------------------------------------------------------------- compositor

\* bibliopixel.colors.color_scale(color, level): each channel * level >> 8.
color_scale(color, level) ==
    << (color[1] * level) \div 256,
       (color[2] * level) \div 256,
       (color[3] * level) \div 256 >>

\* Extent without the clamp to the layout: the image's extent alone.
Extent_Unclamped(ledExtent, off, imgExtent) ==
    imgExtent

\* w (or h) of _getBufferFromImage: the layout's extent less the offset,
\* lowered to the image's extent.
Extent(ledExtent, off, imgExtent) ==
    Min(ledExtent - off, imgExtent)

\* LoopCoord with the loops swapped: y outer, x inner.
LoopCoord_RowMajor(ox, oy, w, h, n) ==
    << ox + (n % w), oy + (n \div w) >>

\* The (x, y) of the n-th pass (n = 0, 1, ...) of the nested loops
\* "for x in range(ox, w + ox): for y in range(oy, h + oy)".
LoopCoord(ox, oy, w, h, n) ==
    << ox + (n \div h), oy + (n % h) >>

\* The number of passes of the nested loops.
LoopLen(w, h) ==
    IF w <= 0 \/ h <= 0 THEN 0 ELSE w * h

\* The passes of the loop body that get past "if x < 0 or y < 0: continue",
\* in loop order: the coordinates at which matrix_map and the frame are read.
Visited(l, img, off) ==
    LET w == Extent(l.width, off[1], img.size[1])
        h == Extent(l.height, off[2], img.size[2])
        all == [n \in 1..LoopLen(w, h) |-> LoopCoord(off[1], off[2], w, h, n - 1)]
        Kept(c) == ~(c[1] < 0 \/ c[2] < 0)
    IN  SelectSeq(all, Kept)

\* matrix_map[y][x] and frame.getpixel((x - ox, y - oy)) both index inside
\* their tables; outside, Python raises IndexError.
InBounds(l, img, off, c) ==
    /\ 0 <= c[1] /\ c[1] < l.width
    /\ 0 <= c[2] /\ c[2] < l.height
    /\ 0 <= c[1] - off[1] /\ c[1] - off[1] < img.size[1]
    /\ 0 <= c[2] - off[2] /\ c[2] - off[2] < img.size[2]

\* PixelColor without the multiplication by alpha.
PixelColor_NoPremultiply(img, off, c, bgc, bright) ==
    LET p == GetPixel(img, c[1] - off[1], c[2] - off[2])
        rgb == IF p[4] = 0 THEN bgc ELSE << p[1], p[2], p[3] >>
    IN  IF bright # 255 THEN color_scale(rgb, bright) ELSE rgb

\* The (r, g, b) one pass of the loop body hands to the gamma table.
PixelColor(img, off, c, bgc, bright) ==
    LET p == GetPixel(img, c[1] - off[1], c[2] - off[2])
        a == p[4]
        rgb == IF a = 0 THEN bgc
               ELSE << (p[1] * a) \div 256, (p[2] * a) \div 256,
                       (p[3] * a) \div 256 >>
    IN  IF bright # 255 THEN color_scale(rgb, bright) ELSE rgb

\* buffer[pixel * 3 + k] = gamma[...] for k = 0, 1, 2 (buffers are 1-indexed
\* here: byte i of the code is element i + 1).
WritePixel(buf, pixel, rgb, gamma) ==
    [i \in 1..Len(buf) |->
        IF i = pixel * 3 + 1 THEN GammaAt(gamma, rgb[1])
        ELSE IF i = pixel * 3 + 2 THEN GammaAt(gamma, rgb[2])
        ELSE IF i = pixel * 3 + 3 THEN GammaAt(gamma, rgb[3])
        ELSE buf[i]]

\* The buffer before the loop: zeros, overwritten with the gamma of the
\* (already scaled) background unless that background is (0, 0, 0).
Background(l, bgc) ==
    [i \in 1..(3 * l.numLEDs) |->
        IF bgc # <<0, 0, 0>> THEN GammaAt(l.gamma, bgc[((i - 1) % 3) + 1])
        ELSE 0]

RECURSIVE RunLoop(_, _, _, _, _, _, _)
\* The loop over the visited coordinates from the n-th on, in order.
RunLoop(buf, l, img, off, bgc, bright, n) ==
    LET cs == Visited(l, img, off)
    IN  IF n > Len(cs) THEN buf
        ELSE RunLoop(
                 WritePixel(buf, l.matrix_map[cs[n][2] + 1][cs[n][1] + 1],
                            PixelColor(img, off, cs[n], bgc, bright), l.gamma),
                 l, img, off, bgc, bright, n + 1)

\* _getBufferFromImage: (duration, buffer); timed says whether img.info has
\* a 'duration'. An out-of-range index raises instead.
getBufferFromImage(l, img, off, bgc, bright, timed) ==
    IF \E n \in 1..Len(Visited(l, img, off)) :
           ~InBounds(l, img, off, Visited(l, img, off)[n])
    THEN [raised |-> TRUE, duration |-> None, buffer |-> <<>>]
    ELSE [raised |-> FALSE,
          duration |-> IF timed THEN <<img.duration>> ELSE None,
          buffer |-> RunLoop(Background(l, bgc), l, img, off, bgc, bright, 1)]

\* ------------------------------------------------------------ construction

\* self._bright: the brightness argument, or the master brightness when the
\* argument is 255 and the master brightness is not.
Bright(b, master) ==
    IF b = 255 /\ master # 255 THEN master ELSE b

\* One axis of the centring offset: (led extent - image extent) / 2 when
\* the image is smaller than the layout, otherwise 0.
Centre(ledExtent, imgExtent) ==
    IF imgExtent < ledExtent THEN (ledExtent - imgExtent) \div 2 ELSE 0

\* self._offset of the GIF branch: centred on the first frame when the
\* argument equals (0, 0).
GifOffset(l, first, off) ==
    IF off = <<0, 0>>
    THEN << Centre(l.width, first.size[1]), Centre(l.height, first.size[2]) >>
    ELSE off

\* The (duration, buffer) pairs of the frames, in source order.
Render(l, frames, off, bgc, bright, timed) ==
    [k \in 1..Len(frames) |->
        getBufferFromImage(l, frames[k], off, bgc, bright, timed)]

AnyRaised(images) ==
    \E k \in 1..Len(images) : images[k].raised

\* NoImagesFound with the check left out.
NoImagesFound_Never(imageList) ==
    FALSE

\* "if self._count == 0: raise ValueError" of the folder branch.
NoImagesFound(imageList) ==
    Len(imageList) = 0

\* The folder branch reads img.size of a path string whenever self._offset
\* equals (0, 0): str has no attribute size.
ReadsSizeOfPath(off) ==
    off = <<0, 0>>

Init ==
    /\ pc = "new"
    /\ err = "none"
    /\ led = CHOOSE l \in Leds : TRUE
    /\ imagePath = [kind |-> "folder", frames |-> <<>>]
    /\ offset = <<0, 0>>
    /\ bgcolor = <<0, 0, 0>>
    /\ brightness = 255
    /\ _bright = 255
    /\ _bgcolor = <<0, 0, 0>>
    /\ _offset = <<0, 0>>
    /\ _images = <<>>
    /\ _count = 0
    /\ _curImage = 0
    /\ animComplete = FALSE
    /\ _internalDelay = None
    /\ _step = 0
    /\ ledBuffer = <<>>
    /\ calls = 0
    /\ doneAtReset = FALSE

\* ImageAnim.__init__ up to the branch on the path.
Common(l, path, off, bgc, b) ==
    /\ led' = l
    /\ imagePath' = path
    /\ offset' = off
    /\ bgcolor' = bgc
    /\ brightness' = b
    /\ _bright' = Bright(b, l.masterBrightness)
    /\ _bgcolor' = color_scale(bgc, Bright(b, l.masterBrightness))
    /\ UNCHANGED <<animComplete, _internalDelay, _step, ledBuffer,
                   calls, doneAtReset>>

\* __init__ with a path that ends in ".gif".
ConstructGif(l, path, off, bgc, b) ==
    LET o == GifOffset(l, path.frames[1], off)
        images == Render(l, path.frames, o, color_scale(bgc, Bright(b, l.masterBrightness)),
                         Bright(b, l.masterBrightness), TRUE)
    IN  /\ path.kind = "gif"
        /\ Common(l, path, off, bgc, b)
        /\ _offset' = o
        /\ IF AnyRaised(images)
           THEN /\ pc' = "failed"
                /\ err' = "IndexError"
                /\ _images' = <<>>
                /\ _count' = 0
           ELSE /\ pc' = "ready"
                /\ err' = "none"
                /\ _images' = images
                /\ _count' = Len(images)
        /\ _curImage' = 0

\* __init__ with any other path: the sorted "*.bmp" files of a folder.
ConstructFolder(l, path, off, bgc, b) ==
    LET images == Render(l, path.frames, off, color_scale(bgc, Bright(b, l.masterBrightness)),
                         Bright(b, l.masterBrightness), FALSE)
    IN  /\ path.kind = "folder"
        /\ Common(l, path, off, bgc, b)
        /\ _offset' = off
        /\ _count' = Len(path.frames)
        /\ _curImage' = 0
        /\ IF NoImagesFound(path.frames)
           THEN /\ pc' = "failed"
                /\ err' = "ValueError"
                /\ _images' = <<>>
           ELSE IF ReadsSizeOfPath(off) /\ Len(path.frames) > 0
           THEN /\ pc' = "failed"
                /\ err' = "AttributeError"
                /\ _images' = <<>>
           ELSE IF AnyRaised(images)
           THEN /\ pc' = "failed"
                /\ err' = "IndexError"
                /\ _images' = <<>>
           ELSE /\ pc' = "ready"
                /\ err' = "none"
                /\ _images' = images

Construct ==
    /\ pc = "new"
    /\ \E l \in Leds, path \in ImagePaths, off \in Offsets,
          bgc \in BgColors, b \in Brightnesses :
           \/ ConstructGif(l, path, off, bgc, b)
           \/ ConstructFolder(l, path, off, bgc, b)

\* --------------------------------------------------------------- playback

\* NextImage with ">" for ">=".
NextImage_OffByOne(cur, count) ==
    IF cur + 1 > count THEN 0 ELSE cur + 1

\* The cursor after a step: one further, or 0 once it reaches the count.
NextImage(cur, count) ==
    IF cur + 1 >= count THEN 0 ELSE cur + 1

\* Whether a step from this cursor sets animComplete.
Wraps(cur, count) ==
    cur + 1 >= count

\* CompleteAfterPreRun with the flag cleared.
CompleteAfterPreRun_Clears(done) ==
    FALSE

\* animComplete after preRun(): the method does not assign it.
CompleteAfterPreRun(done) ==
    done

\* CompleteAfterStep with the flag assigned on every step.
CompleteAfterStep_Assigns(done, cur, count) ==
    Wraps(cur, count)

\* animComplete after step().
CompleteAfterStep(done, cur, count) ==
    IF Wraps(cur, count) THEN TRUE ELSE done

preRun ==
    /\ pc = "ready"
    /\ _curImage' = 0
    /\ animComplete' = CompleteAfterPreRun(animComplete)
    /\ calls' = 0
    /\ doneAtReset' = animComplete
    /\ UNCHANGED <<pc, err, led, imagePath, offset, bgcolor, brightness,
                   _bright, _bgcolor, _offset, _images, _count,
                   _internalDelay, _step, ledBuffer>>

step ==
    /\ pc = "ready"
    /\ calls < MaxCalls
    /\ ledBuffer' = _images[_curImage + 1].buffer
    /\ _internalDelay' = _images[_curImage + 1].duration
    /\ _curImage' = NextImage(_curImage, _count)
    /\ animComplete' = CompleteAfterStep(animComplete, _curImage, _count)
    /\ _step' = 0
    /\ calls' = calls + 1
    /\ UNCHANGED <<pc, err, led, imagePath, offset, bgcolor, brightness,
                   _bright, _bgcolor, _offset, _images, _count, doneAtReset>>

Next ==
    \/ Construct
    \/ preRun
    \/ step

Spec == Init /\ [][Next]_vars

\* ------------------------------------------------- readings of the state

Max(a, b) == IF a > b THEN a ELSE b

Ready == pc = "ready"

FrameOf(k) == imagePath.frames[k]

BufferOf(k) == _images[k].buffer

\* The coordinates frame k writes, in the order the loop writes them.
Vis(k) == Visited(led, FrameOf(k), _offset)

PixelAt(c) == led.matrix_map[c[2] + 1][c[1] + 1]

BytesAt(buf, p) == << buf[3 * p + 1], buf[3 * p + 2], buf[3 * p + 3] >>

GammaOf(rgb) ==
    << GammaAt(led.gamma, rgb[1]), GammaAt(led.gamma, rgb[2]),
       GammaAt(led.gamma, rgb[3]) >>

\* The raw (r, g, b, a) sample of frame k under layout coordinate c.
Sample(k, c) == GetPixel(FrameOf(k), c[1] - _offset[1], c[2] - _offset[2])

\* The writes of frame k that land on physical pixel p.
Writers(k, p) == { n \in 1..Len(Vis(k)) : PixelAt(Vis(k)[n]) = p }

\* The background as the claims state it: scaled by the brightness once.
ScaledBg == color_scale(bgcolor, _bright)

\* The offset that centres a w0 x h0 first frame.
Centred(w0, h0) ==
    << Max(0, (led.width - w0) \div 2), Max(0, (led.height - h0) \div 2) >>

\* c1 comes before c2 in row-major order (y outer, x inner).
RowMajorBefore(c1, c2) ==
    c1[2] < c2[2] \/ (c1[2] = c2[2] /\ c1[1] < c2[1])

\* c1 comes before c2 in column-major order (x outer, y inner).
ColMajorBefore(c1, c2) ==
    c1[1] < c2[1] \/ (c1[1] = c2[1] /\ c1[2] < c2[2])

\* ------------------------------------------------------------------ claims

\* C1 as written: from a reset state whose completed flag is false, the k-th
\* step shows frame k, completed is false after each of the first len - 1
\* steps and true after step len, and step len + 1 shows the first frame
\* again with completed = false.
C1_AsWritten ==
    (Ready /\ ~doneAtReset) =>
        /\ (1 <= calls /\ calls < _count) => ~animComplete
        /\ calls = _count => animComplete
        /\ calls = _count + 1 =>
               (ledBuffer = BufferOf(1) /\ ~animComplete)

\* C1 amended: as above, but step len + 1 shows the first frame again with
\* completed still true: step() only ever sets the flag.
C1_StepsFromReset ==
    (Ready /\ ~doneAtReset) =>
        /\ (1 <= calls /\ calls <= _count) =>
               (ledBuffer = BufferOf(calls) /\ _internalDelay = _images[calls].duration)
        /\ (1 <= calls /\ calls < _count) => ~animComplete
        /\ calls = _count => animComplete
        /\ calls = _count + 1 =>
               (ledBuffer = BufferOf(1) /\ animComplete)

C1_Witness ==
    Ready /\ ~doneAtReset /\ _count = 2 /\ calls = 3 /\ animComplete

\* C2 as written: right after preRun(), whatever steps came before it, the
\* cursor is 0 and completed is false.
C2_AsWritten ==
    (Ready /\ calls = 0) => (_curImage = 0 /\ ~animComplete)

\* C2 amended: right after preRun() the cursor is 0 and completed is what
\* it was before the call (preRun() does not touch the flag).
C2_PreRunResetsCursor ==
    (Ready /\ calls = 0) => (_curImage = 0 /\ animComplete = doneAtReset)

\* preRun() has run after a full pass over two frames.
C2_Witness ==
    Ready /\ calls = 0 /\ ledBuffer # <<>> /\ doneAtReset /\ _count = 2

\* C3: in every state of a constructed sequence the cursor is within
\* [0, len), len being both _count and the number of rendered frames, and a
\* step that brings the cursor back to 0 has set completed in that step.
C3_CursorInRange ==
    Ready =>
        /\ Len(_images) >= 1
        /\ _count = Len(_images)
        /\ 0 <= _curImage /\ _curImage < Len(_images)
        /\ (calls >= 1 /\ _curImage = 0) => animComplete
        /\ _curImage = calls % _count

C3_Witness ==
    Ready /\ _count = 2 /\ calls = 2 /\ _curImage = 0 /\ animComplete

\* C4: constructing from a folder without image files raises ValueError
\* ("No images found!"), and a constructor that raised leaves no object to
\* call preRun() or step() on; a constructed sequence has a frame.
C4_EmptyFolderFails ==
    /\ (pc # "new" /\ imagePath.kind = "folder" /\ Len(imagePath.frames) = 0)
           => (pc = "failed" /\ err = "ValueError")
    /\ Ready => (Len(_images) >= 1 /\ _count >= 1)
    /\ pc = "failed" => (~ENABLED step /\ ~ENABLED preRun)

C4_Witness ==
    /\ pc = "failed" /\ err = "ValueError"
    /\ imagePath.kind = "folder" /\ imagePath.frames = <<>>

\* C5: a written pixel whose sample has alpha 0 holds the gamma of the
\* background scaled by the brightness once, whatever the brightness.
C5_TransparentIsBackground ==
    Ready =>
        \A k \in 1..Len(_images) : \A n \in 1..Len(Vis(k)) :
            (Sample(k, Vis(k)[n])[4] = 0
             /\ Writers(k, PixelAt(Vis(k)[n])) = {n})
            => BytesAt(BufferOf(k), PixelAt(Vis(k)[n])) = GammaOf(ScaledBg)

\* A frame pasted at (0, 0) that is opaque and exactly as large as the layout,
\* at brightness 255.
ExactOpaque(k) ==
    /\ _offset = <<0, 0>>
    /\ _bright = 255
    /\ FrameOf(k).alpha = "opaque"
    /\ FrameOf(k).size = <<led.width, led.height>>

\* The layout coordinates, and those whose physical pixel no other has.
Coords == { <<x, y>> : x \in 0..(led.width - 1), y \in 0..(led.height - 1) }

Unshared(c) == \A d \in Coords : PixelAt(d) = PixelAt(c) => d = c

\* C6 as written: such a frame leaves at every pixel the gamma of the raw
\* R, G, B samples.
C6_AsWritten ==
    Ready =>
        \A k \in 1..Len(_images) : ExactOpaque(k) =>
            \A c \in Coords : Unshared(c) =>
                BytesAt(BufferOf(k), PixelAt(c)) =
                    GammaOf(<< Sample(k, c)[1], Sample(k, c)[2], Sample(k, c)[3] >>)

\* C6 amended: such a frame leaves at every pixel the gamma of each raw
\* sample times 255 shifted right by 8 (the sample less one, 0 for 0).
C6_OpaqueIsPremultiplied ==
    Ready =>
        \A k \in 1..Len(_images) : ExactOpaque(k) =>
            \A c \in Coords : Unshared(c) =>
                BytesAt(BufferOf(k), PixelAt(c)) =
                    GammaOf(<< (Sample(k, c)[1] * 255) \div 256,
                               (Sample(k, c)[2] * 255) \div 256,
                               (Sample(k, c)[3] * 255) \div 256 >>)

C6_Witness ==
    /\ Ready /\ led.width = 2 /\ led.height = 2 /\ led.gamma = "highbit"
    /\ ExactOpaque(1)

\* C7: every buffer has 3 * numLEDs bytes, and every physical pixel no loop
\* pass writes holds the gamma of the scaled background, (0, 0, 0) included.
C7_BackgroundFill ==
    Ready =>
        \A k \in 1..Len(_images) :
            /\ Len(BufferOf(k)) = 3 * led.numLEDs
            /\ \A p \in 0..(led.numLEDs - 1) :
                   Writers(k, p) = {} =>
                       BytesAt(BufferOf(k), p) = GammaOf(ScaledBg)

\* C8: with the offset argument left at (0, 0) and at least one source
\* frame, either construction path succeeds with one rendered frame per
\* source frame, in order, each pasted at the offset that centres the
\* first frame.
C8_DefaultOffsetCentres ==
    (pc # "new" /\ offset = <<0, 0>> /\ Len(imagePath.frames) >= 1) =>
        /\ Ready
        /\ Len(_images) = Len(imagePath.frames)
        /\ _offset = Centred(FrameOf(1).size[1], FrameOf(1).size[2])
        /\ \A k \in 1..Len(_images) :
               BufferOf(k) =
                   getBufferFromImage(led, FrameOf(k),
                       Centred(FrameOf(1).size[1], FrameOf(1).size[2]),
                       _bgcolor, _bright, TRUE).buffer

\* Among the writes ws of the coordinates vis, the one a given order of
\* traversal makes last.
LastBy(vis, ws, Before(_, _)) ==
    CHOOSE n \in ws : \A m \in ws : m = n \/ Before(vis[m], vis[n])

\* The colour frame k stores for coordinate c.
Written(k, c) ==
    GammaOf(PixelColor(FrameOf(k), _offset, c, _bgcolor, _bright))

\* Frame k leaves at every written pixel the value of the coordinate that
\* is last in the given order among those mapped to the pixel.
LastWriteWins(k, Before(_, _)) ==
    LET vis == Vis(k)
    IN  \A p \in 0..(led.numLEDs - 1) :
            LET ws == { n \in 1..Len(vis) : PixelAt(vis[n]) = p }
            IN  ws # {} =>
                    BytesAt(BufferOf(k), p) = Written(k, vis[LastBy(vis, ws, Before)])

\* C9 as written: a physical pixel that several coordinates map to keeps the
\* value of the coordinate that is last in row-major order.
C9_AsWritten ==
    Ready => \A k \in 1..Len(_images) : LastWriteWins(k, RowMajorBefore)

\* C9 amended: it keeps the value of the coordinate that is last in
\* column-major order (x outer loop, y inner loop).
C9_LastWriteColumnMajor ==
    Ready => \A k \in 1..Len(_images) : LastWriteWins(k, ColMajorBefore)

\* Two writes land on one pixel with different colours, and the two orders
\* disagree on which is last.
C9_Witness ==
    /\ Ready
    /\ \E p \in 0..(led.numLEDs - 1) :
           LET vis == Vis(1)
               ws == Writers(1, p)
           IN  /\ Cardinality(ws) = 2
               /\ Written(1, vis[LastBy(vis, ws, RowMajorBefore)])
                      # Written(1, vis[LastBy(vis, ws, ColMajorBefore)])

\* C10: no construction raises IndexError, and every coordinate at which a
\* frame is composited lies inside the layout and, less the offset, inside
\* the frame.
C10_ReadsInBounds ==
    /\ err # "IndexError"
    /\ Ready =>
           \A k \in 1..Len(_images) : \A n \in 1..Len(Vis(k)) :
               InBounds(led, FrameOf(k), _offset, Vis(k)[n])

\* A frame pasted at a negative offset still writes something.
C10_Witness ==
    /\ Ready /\ _offset = <<-1, -1>>
    /\ Len(Vis(1)) >= 1
    /\ FrameOf(1).size[1] > led.width + 1

====
